---- MODULE Spec2Model ----
(***************************************************************************)
(* A model of the design-by-contract engine:                               *)
(*   - UnresolvedSymbol and its overloaded equality (unification),         *)
(*   - the wrapper installed by contract() in design_by_contract/__init__, *)
(*     which checks the Annotated[...] predicates of a call.               *)
(* Values are small positive integers; None is the unbound marker.         *)
(***************************************************************************)
EXTENDS Integers, Sequences, FiniteSets, TLC

\* ------------------------------------------------------------------ bounds
\* Argument and result values range over 1..MaxVal.
MaxVal == 2
\* A contract attaches at most MaxMetas metadata entries over all its slots.
MaxMetas == 2
\* At most MaxChained Delayed nodes are chained on the two roots.
MaxChained == 6
\* A program on Delayed nodes has at most MaxStmts statements and is followed
\* by at most MaxChecks checks.
MaxStmts == 3
MaxChecks == 2
\* A node holds at most MaxValues asserted or computed values.
MaxValues == 5

\* ------------------------------------------------------------------ values
\* UnresolvedSymbol.value defaults to None: the symbol is unbound.
None == 0
Values == 1..MaxVal

\* An exception as the caller sees it: its class, the names its message
\* interpolates and the values its message interpolates.
Exc(cls, names, vals) == [cls |-> cls, names |-> names, vals |-> vals]
NoExc == Exc("", {}, <<>>)

\* --------------------------------------------------------- UnresolvedSymbol
\* An operand of ==: an UnresolvedSymbol (sym, with its name and value) or a
\* concrete value (val).
SymOperand(name, val) == [sym |-> TRUE, name |-> name, val |-> val]
ValOperand(val) == [sym |-> FALSE, name |-> "", val |-> val]

\* What one call of __eq__ does: what it returns ("self", "True") or that it
\* raises, and the two operands' values afterwards.
EqResult(ret, selfVal, otherVal, exc) ==
  [ret |-> ret, self |-> selfVal, other |-> otherVal, exc |-> exc]

\* __eq__ without its two mismatch cases: a bound symbol takes the other value.
EqOverwrite(selfName, selfVal, other) ==
  IF other.sym /\ other.val = None
  THEN IF selfVal = None
       THEN EqResult("raise", selfVal, other.val,
                     Exc("ContractViolationError", {selfName, other.name}, <<>>))
       ELSE EqResult("self", selfVal, selfVal, NoExc)
  ELSE IF other.sym /\ selfVal = None
  THEN EqResult("self", other.val, other.val, NoExc)
  ELSE IF other.val = selfVal
  THEN EqResult("True", selfVal, other.val, NoExc)
  ELSE EqResult("self", other.val, other.val, NoExc)

\* __eq__ without the check that one of two symbols holds a value.
EqSilent(selfName, selfVal, other) ==
  IF other.sym /\ other.val = None
  THEN EqResult("self", selfVal, selfVal, NoExc)
  ELSE IF other.sym /\ selfVal = None
  THEN EqResult("self", other.val, other.val, NoExc)
  ELSE IF other.sym /\ other.val # selfVal
  THEN EqResult("raise", selfVal, other.val,
                Exc("ContractViolationError", {selfName, other.name},
                    <<selfVal, other.val>>))
  ELSE IF other.val = selfVal
  THEN EqResult("True", selfVal, other.val, NoExc)
  ELSE IF selfVal # None
  THEN EqResult("raise", selfVal, other.val,
                Exc("ContractViolationError", {selfName},
                    <<selfVal, other.val>>))
  ELSE EqResult("self", other.val, other.val, NoExc)

\* UnresolvedSymbol.__eq__(self, other): the match statement, case by case.
SymbolEq(selfName, selfVal, other) ==
  IF other.sym /\ other.val = None
  THEN \* case UnresolvedSymbol(name=name, value=None)
       IF selfVal = None
       THEN EqResult("raise", selfVal, other.val,
                     Exc("ContractViolationError", {selfName, other.name}, <<>>))
       ELSE EqResult("self", selfVal, selfVal, NoExc)
  ELSE IF other.sym /\ selfVal = None
  THEN \* case UnresolvedSymbol(name=_, value=value) if self.value is None
       EqResult("self", other.val, other.val, NoExc)
  ELSE IF other.sym /\ other.val # selfVal
  THEN \* case UnresolvedSymbol(name=name, value=value) if value != self.value
       EqResult("raise", selfVal, other.val,
                Exc("ContractViolationError", {selfName, other.name},
                    <<selfVal, other.val>>))
  ELSE IF other.val = selfVal
  THEN \* case self.value  (other == self.value)
       EqResult("True", selfVal, other.val, NoExc)
  ELSE IF selfVal # None
  THEN \* case value if self.value is not None
       EqResult("raise", selfVal, other.val,
                Exc("ContractViolationError", {selfName},
                    <<selfVal, other.val>>))
  ELSE \* case value
       EqResult("self", other.val, other.val, NoExc)

\* UnresolvedSymbol.__bool__ applied to what __eq__ returned: True is true,
\* self is true when it holds a value.
Truthy(r) == r.ret = "True" \/ (r.ret = "self" /\ r.self # None)

\* ------------------------------------------------------------- predicates
\* A predicate is a lambda: its formal parameter names (getfullargspec(meta).args)
\* and its body, a chain  atom and atom and ...  (a tuple equality such as
\* (m, n) == x.shape compares pairwise and stops at the first unequal pair,
\* which is the same chain).  A term is a constant or a name.
Const(v) == [k |-> "const", n |-> "", v |-> v]
Name(n) == [k |-> "name", n |-> n, v |-> None]
Atom(op, l, r) == [op |-> op, l |-> l, r |-> r]
Lambda(args, body) == [callable |-> TRUE, args |-> args, body |-> body]
\* Metadata that is no callable (a string, a number): the engine skips it.
NonCallable == [callable |-> FALSE, args |-> <<>>, body |-> <<>>]

\* The metadata a contract of this model may attach.
Library ==
  << Lambda(<<"x", "m">>, <<Atom("eq", Name("m"), Name("x"))>>),
     \* lambda x, m: m == x
     Lambda(<<"x">>, <<Atom("gt", Name("x"), Const(1))>>),
     \* lambda x: x > 1
     Lambda(<<"x", "m">>, <<Atom("gt", Name("x"), Const(1))>>),
     \* lambda x, m: x > 1          (nothing binds m here)
     Lambda(<<"x", "m">>, <<Atom("eq", Name("m"), Name("x")),
                            Atom("gt", Name("m"), Const(1))>>),
     \* lambda x, m: m == x and m > 1
     Lambda(<<"a", "b">>, <<Atom("eq", Name("a"), Name("b"))>>),
     \* lambda a, b: a == b
     Lambda(<<"m">>, <<Atom("eq", Name("m"), Const(1))>>),
     \* lambda m: m == 1            (names neither its slot nor the reserved name)
     NonCallable,
     Lambda(<<"x", "m", "n">>, <<Atom("eq", Name("m"), Name("n"))>>) >>
     \* lambda x, m, n: m == n      (two names nothing has bound)

\* The sequences over 1..Len(Library) of length at most n.
MetaSeqs(n) == UNION {[1..k -> 1..Len(Library)] : k \in 0..n}

\* The declared parameters of the wrapped function, in declaration order.
Params == <<"a", "b">>
Slots == {"a", "b", "return"}

\* ------------------------------------------------------------------ state
VARIABLES
  \* the contract, fixed when the decorator is applied
  annotated,    \* slot -> whether the slot has an annotation at all
  metadata,     \* slot -> its Annotated metadata, as indices into Library
  reserved,     \* contract(reserved=...)
  evaluate,     \* contract(evaluate=...)
  \* one call of the wrapper
  pc,           \* "idle", "bypass", "check_params", "check_return", "done"
  args,         \* the positional arguments of the call
  kw,           \* the keyword arguments of the call: name -> value
  injectables,  \* the binding environment: name -> value
  cursor,       \* the next work item of evaluate_annotations
  evaluated,    \* history: the predicates invoked so far, in order
  invoked,      \* how often the wrapped function has been invoked
  calledWith,   \* the arguments the wrapped function was invoked with
  funcOut,      \* what the wrapped function did
  outcome,      \* what the wrapper did: still running, returned, raised
  \* stand-alone UnresolvedSymbols and the last comparison made on them
  symval,       \* symbol name -> value
  last,         \* the last comparison: operands, values before, result
  undefined,    \* history: the pairs compared while both were unbound
  \* Delayed nodes (variables.py) and the checks run on them
  heap,         \* node -> its fields (DBC_term, DBC_terminal, DBC_values, ...)
  used,         \* how many nodes have been constructed
  program,      \* history: the statements executed on the nodes so far
  dpc,          \* "build", "resolving", "checked"
  raiseErrors,  \* the raise_errors argument of the checks of this run
  variables,    \* resolve(variables, ...): the nodes being resolved
  iterations,   \* resolve's counter
  checkResults, \* resolve's check_results: the verdicts of its last pass
  before,       \* history: the heap when the last check or resolve began
  verdicts,     \* history: what each finished check or resolve gave
  \* the derived variables of decorators.contract(**variables)
  definitions,  \* the definitions, in the order given, as indices into Definitions
  \* concurrent calls of one wrapper
  frames        \* call -> the locals of that call of wrapper

contractVars == <<annotated, metadata, reserved, evaluate>>
callVars == <<pc, args, kw, injectables, cursor, evaluated, invoked,
              calledWith, funcOut, outcome>>
symVars == <<symval, last, undefined>>
delVars == <<heap, used, program, dpc, raiseErrors, variables, iterations,
             checkResults, before, verdicts>>
decVars == <<definitions>>
parVars == <<frames>>
auxVars == <<delVars, decVars, parVars>>
vars == <<contractVars, callVars, symVars, auxVars>>

\* ------------------------------------------------- evaluating a predicate
Range(f) == {f[i] : i \in DOMAIN f}
Min(i, j) == IF i <= j THEN i ELSE j

\* (symbols | injectables)[i]: a name the environment lacks is a fresh symbol.
IsSymbol(t, inj) == t.k = "name" /\ t.n \notin DOMAIN inj
Concrete(t, inj) == IF t.k = "const" THEN t.v ELSE inj[t.n]
Operand(t, inj, syms) ==
  IF IsSymbol(t, inj) THEN SymOperand(t.n, syms[t.n]) ELSE ValOperand(Concrete(t, inj))

\* What evaluating (part of) a predicate body gives: its truth value or that
\* it raised, and the symbols' values afterwards.
BodyResult(st, syms, exc) == [st |-> st, syms |-> syms, exc |-> exc]
Bool(b) == IF b THEN "true" ELSE "false"

\* l == r.  A symbol on the left runs its __eq__; a concrete value on the left
\* returns NotImplemented against a symbol, so Python runs the symbol's
\* reflected __eq__; two concrete values compare as values.
EvalEq(l, r, inj, syms) ==
  IF IsSymbol(l, inj)
  THEN LET e == SymbolEq(l.n, syms[l.n], Operand(r, inj, syms))
           s1 == IF IsSymbol(r, inj) THEN [syms EXCEPT ![r.n] = e.other] ELSE syms
           s2 == [s1 EXCEPT ![l.n] = e.self]
       IN  IF e.ret = "raise" THEN BodyResult("raise", syms, e.exc)
           ELSE BodyResult(Bool(Truthy(e)), s2, NoExc)
  ELSE IF IsSymbol(r, inj)
  THEN LET e == SymbolEq(r.n, syms[r.n], Operand(l, inj, syms))
       IN  IF e.ret = "raise" THEN BodyResult("raise", syms, e.exc)
           ELSE BodyResult(Bool(Truthy(e)), [syms EXCEPT ![r.n] = e.self], NoExc)
  ELSE BodyResult(Bool(Concrete(l, inj) = Concrete(r, inj)), syms, NoExc)

\* l > r.  UnresolvedSymbol defines no ordering: TypeError.
EvalGt(l, r, inj, syms) ==
  IF IsSymbol(l, inj) \/ IsSymbol(r, inj)
  THEN BodyResult("raise", syms, Exc("TypeError", {}, <<>>))
  ELSE BodyResult(Bool(Concrete(l, inj) > Concrete(r, inj)), syms, NoExc)

EvalAtom(atom, inj, syms) ==
  IF atom.op = "eq" THEN EvalEq(atom.l, atom.r, inj, syms)
  ELSE EvalGt(atom.l, atom.r, inj, syms)

\* meta(*[(symbols | injectables)[i] for i in meta_args]): the atoms from i on,
\* left to right; `and` stops at the first false atom, an exception at once.
RECURSIVE EvalBody(_, _, _, _)
EvalBody(body, i, inj, syms) ==
  IF i > Len(body) THEN BodyResult("true", syms, NoExc)
  ELSE LET r == EvalAtom(body[i], inj, syms)
       IN  IF r.st = "true" THEN EvalBody(body, i + 1, inj, r.syms) ELSE r

\* ------------------------------------------------- evaluate_annotations
\* What handling one metadata entry gives: "skip" (not evaluated), "pass", or
\* "raise" with the exception that ends the call; the predicate's own result
\* (st: "true", "false", "raise", or "" when it was not invoked); the
\* environment afterwards (inj); the environment the predicate was invoked in
\* (env) and the values its fresh symbols ended with (syms).
MetaResult(res, st, exc, inj, env, syms) ==
  [res |-> res, st |-> st, exc |-> exc, inj |-> inj, env |-> env, syms |-> syms]

\* if arg_name in meta_args or reserved in meta_args
Applicable(slot, metaArgs) == slot \in Range(metaArgs) \/ reserved \in Range(metaArgs)

\* injectables[reserved] = injectables[arg_name]
Alias(inj, slot) ==
  [n \in DOMAIN inj \cup {reserved} |-> IF n = reserved THEN inj[slot] ELSE inj[n]]

\* Fresh symbols for every free name of the predicate, bound before or not.
UnresolvedAnew(metaArgs, inj) ==
  Range(metaArgs) \ (Range(Params) \cup {reserved, "return"})

\* unresolved := set(meta_args) - set(injectables.keys())
Unresolved(metaArgs, inj) == Range(metaArgs) \ DOMAIN inj

\* injectables |= {k: v.value for k, v in symbols.items()}
Merge(inj, syms) ==
  [n \in DOMAIN inj \cup DOMAIN syms |-> IF n \in DOMAIN syms THEN syms[n] ELSE inj[n]]

\* The checks without the one that every fresh symbol got a value.
VerdictUnchecked(slot, r, inj) ==
  IF r.st = "raise"
  THEN MetaResult("raise", r.st, r.exc, inj, inj, r.syms)
  ELSE IF r.st = "false"
  THEN MetaResult("raise", r.st, Exc("ContractViolationError", {slot}, <<>>),
                  inj, inj, r.syms)
  ELSE MetaResult("pass", r.st, NoExc, Merge(inj, r.syms), inj, r.syms)

\* The checks without the one of the predicate's truth value.
VerdictLenient(slot, r, inj) ==
  IF r.st = "raise"
  THEN MetaResult("raise", r.st, r.exc, inj, inj, r.syms)
  ELSE IF \E n \in DOMAIN r.syms : r.syms[n] = None
  THEN MetaResult("raise", r.st, Exc("ContractLogicError", DOMAIN r.syms, <<>>),
                  inj, inj, r.syms)
  ELSE MetaResult("pass", r.st, NoExc, Merge(inj, r.syms), inj, r.syms)

\* The checks in the other order: whether every fresh symbol got a value first,
\* then the predicate's truth value.
VerdictUnboundFirst(slot, r, inj) ==
  IF r.st = "raise"
  THEN MetaResult("raise", r.st, r.exc, inj, inj, r.syms)
  ELSE IF \E n \in DOMAIN r.syms : r.syms[n] = None
  THEN MetaResult("raise", r.st, Exc("ContractLogicError", DOMAIN r.syms, <<>>),
                  inj, inj, r.syms)
  ELSE IF r.st = "false"
  THEN MetaResult("raise", r.st, Exc("ContractViolationError", {slot}, <<>>),
                  inj, inj, r.syms)
  ELSE MetaResult("pass", r.st, NoExc, Merge(inj, r.syms), inj, r.syms)

\* The checks after the predicate returned: its truth value first, then whether
\* every fresh symbol got a value.
Verdict(slot, r, inj) ==
  IF r.st = "raise"
  THEN MetaResult("raise", r.st, r.exc, inj, inj, r.syms)
  ELSE IF r.st = "false"
  THEN MetaResult("raise", r.st, Exc("ContractViolationError", {slot}, <<>>),
                  inj, inj, r.syms)
  ELSE IF \E n \in DOMAIN r.syms : r.syms[n] = None
  THEN MetaResult("raise", r.st, Exc("ContractLogicError", DOMAIN r.syms, <<>>),
                  inj, inj, r.syms)
  ELSE MetaResult("pass", r.st, NoExc, Merge(inj, r.syms), inj, r.syms)

\* The body of the loop over annotation.__metadata__ for one entry.
MetaStep(slot, meta, inj) ==
  IF ~meta.callable \/ ~Applicable(slot, meta.args)
  THEN MetaResult("skip", "", NoExc, inj, <<>>, <<>>)
  ELSE IF slot \notin DOMAIN inj
  THEN MetaResult("raise", "", Exc("KeyError", {slot}, <<>>), inj, <<>>, <<>>)
  ELSE LET inj1 == Alias(inj, slot)
           syms == [n \in Unresolved(meta.args, inj1) |-> None]
       IN  Verdict(slot, EvalBody(meta.body, 1, inj1, syms), inj1)

\* annotations.keys() once "return" is popped: the annotated parameters, in
\* declaration order.
ParamKeys == SelectSeq(Params, LAMBDA p : annotated[p])

\* The loop over the annotations taken from the last slot to the first.
RECURSIVE ItemsBackwards(_)
ItemsBackwards(keys) ==
  IF keys = <<>> THEN <<>>
  ELSE ItemsBackwards(Tail(keys))
         \o [i \in 1..Len(metadata[Head(keys)]) |-> <<Head(keys), i>>]

\* The (slot, index) pairs evaluate_annotations visits, in order.  A slot whose
\* annotation has no __metadata__ contributes none.
RECURSIVE ItemsOf(_)
ItemsOf(keys) ==
  IF keys = <<>> THEN <<>>
  ELSE [i \in 1..Len(metadata[Head(keys)]) |-> <<Head(keys), i>>] \o ItemsOf(Tail(keys))

Items == IF pc = "check_return" THEN ItemsOf(<<"return">>) ELSE ItemsOf(ParamKeys)

\* dict(zip(annotations.keys(), args))
ZipDict(keys, vals) ==
  LET n == Min(Len(keys), Len(vals))
  IN  [k \in {keys[i] : i \in 1..n} |-> vals[CHOOSE i \in 1..n : keys[i] = k]]

Running == [kind |-> "running", value |-> None, exc |-> NoExc]
Returned(v) == [kind |-> "return", value |-> v, exc |-> NoExc]
Raised(exc) == [kind |-> "raise", value |-> None, exc |-> exc]
NotCalled == [args |-> <<>>, kw |-> <<>>]

\* ------------------------------------------------------ stand-alone symbols
SymNames == {"a", "b", "c"}
\* The last comparison: the symbol whose __eq__ ran, the other operand as it
\* was, every symbol's value before, and what __eq__ returned or raised.
Compared(self, other, reflected, pre, e) ==
  [self |-> self, other |-> other, reflected |-> reflected, pre |-> pre,
   ret |-> e.ret, exc |-> e.exc]
NoCompare ==
  Compared("", ValOperand(None), FALSE, [n \in SymNames |-> None],
           EqResult("", None, None, NoExc))
SymInit ==
  /\ symval = [n \in SymNames |-> None]
  /\ last = NoCompare
  /\ undefined = {}

\* ------------------------------------------------------------ Delayed nodes
\* The values a node is asserted equal to or computes: an int, a bool, a list
\* of ints, NotImplemented, or (a reference to) another Delayed node.
IntV(i) == [k |-> "int", v |-> <<i>>]
BoolV(b) == [k |-> "bool", v |-> <<IF b THEN 1 ELSE 0>>]
ListV(l) == [k |-> "list", v |-> l]
NotImplemented == [k |-> "NotImplemented", v |-> <<>>]
Node(id) == [k |-> "node", v |-> <<id>>]
IsNode(val) == val.k = "node"
IdOf(val) == val.v[1]

\* a == b on concrete values: bool is an int in Python (True == 1).
PyEq(a, b) ==
  IF a.k \in {"int", "bool"} /\ b.k \in {"int", "bool"} THEN a.v = b.v
  ELSE a.k = b.k /\ a.v = b.v
\* a is False
IsFalse(a) == a.k = "bool" /\ a.v = <<0>>

\* The operations chained on a node: node[arg] and node > arg.
GetItem(i) == [attribute |-> "__getitem__", arg |-> i, terminal |-> FALSE]
Gt(c) == [attribute |-> "__gt__", arg |-> c, terminal |-> TRUE]
NoOp == [attribute |-> "", arg |-> 0, terminal |-> FALSE]

\* An exception of variables.py as the caller sees it: its class, the node
\* its message names (0: none) and the values its message lists.
DExc(cls, id, vals) == [cls |-> cls, node |-> id, vals |-> vals]
NoDExc == DExc("", 0, <<>>)

\* value.__getattribute__(attribute)(arg) on a concrete value.
Computed(st, val, exc) == [st |-> st, val |-> val, exc |-> exc]
Apply(op, val) ==
  IF op.attribute = "__getitem__"
  THEN IF val.k # "list"
       THEN Computed("raise", NotImplemented, DExc("AttributeError", 0, <<>>))
       ELSE IF op.arg >= Len(val.v)
       THEN Computed("raise", NotImplemented, DExc("IndexError", 0, <<>>))
       ELSE Computed("ok", IntV(val.v[op.arg + 1]), NoDExc)
  ELSE IF val.k \in {"int", "bool"}
       THEN Computed("ok", BoolV(val.v[1] > op.arg), NoDExc)
       ELSE Computed("ok", NotImplemented, NoDExc)

\* A node: Delayed(DBC_name, DBC_term, DBC_terminal) with its DBC_values and
\* DBC_children.  A chained node's term applies op to its parent's first value.
Delayed(parent, op) ==
  [term |-> parent # 0, parent |-> parent, op |-> op, terminal |-> op.terminal,
   values |-> <<>>, children |-> <<>>]
\* The two root nodes, m = Delayed("m") and n = Delayed("n"), by their place
\* in the heap.
Roots == <<"m", "n">>
RootM == 1
RootN == 2
RootIds == <<RootM, RootN>>
\* Room for the roots and MaxChained chained nodes.
MaxNodes == Len(Roots) + MaxChained
Unused == Delayed(0, NoOp)

\* The heap with its allocation count; full: a node was needed beyond MaxNodes.
Store(h, u, full) == [heap |-> h, used |-> u, full |-> full]

\* Delayed.__eq__(self, other): self.DBC_values.append(other)
DelayedEq(h, self, other) ==
  [h EXCEPT ![self].values = Append(@, other)]

\* blueprint(self, arg, attribute=...): a new node chained on self.
Blueprint(st, self, op) ==
  IF st.used >= MaxNodes THEN Store(st.heap, st.used, TRUE)
  ELSE Store([st.heap EXCEPT ![st.used + 1] = Delayed(self, op),
                             ![self].children = Append(@, st.used + 1)],
             st.used + 1, st.full)
\* blueprint returning the new node whatever the operation.
BlueprintNode(op, new) == Node(new)
\* What blueprint returns: True for a terminal operation, else the new node.
BlueprintResult(op, new) == IF op.terminal THEN BoolV(TRUE) ELSE Node(new)

\* What DBC_check gives: the heap afterwards, and VALID, INVALID, UNRESOLVED or
\* the exception it raised.
Checked(st, res, exc) ==
  [heap |-> st.heap, used |-> st.used, full |-> st.full, res |-> res, exc |-> exc]

\* A check that never waits for the nodes among its values.
UnsettledNever(h, self) == FALSE
\* any(len(i.DBC_values) == 0 for i in self.DBC_values if isinstance(i, Delayed))
Unsettled(h, self) ==
  \E i \in 1..Len(h[self].values) :
    IsNode(h[self].values[i]) /\ h[IdOf(h[self].values[i])].values = <<>>

\* self.DBC_term(): parent.DBC_values[0].__getattribute__(attribute)(arg).  On
\* a concrete first value it computes; on a Delayed first value it is that
\* node's own blueprint, which chains a new node on it.
Term(st, self) ==
  LET parent == st.heap[self].parent
      op == st.heap[self].op
      first == st.heap[parent].values[1]
      chained == Blueprint(st, IdOf(first), op)
  IN  IF st.heap[parent].values = <<>>
      THEN [st |-> st, c |-> Computed("raise", NotImplemented, DExc("IndexError", 0, <<>>))]
      ELSE IF IsNode(first)
      THEN [st |-> chained, c |-> Computed("ok", BlueprintResult(op, chained.used), NoDExc)]
      ELSE [st |-> st, c |-> Apply(op, first)]

\* [i.DBC_values[0] if isinstance(i, Delayed) else i for i in self.DBC_values]
CanDeref(h, vals) ==
  \A i \in 1..Len(vals) : IsNode(vals[i]) => h[IdOf(vals[i])].values # <<>>
Firsts(h, vals) ==
  [i \in 1..Len(vals) |->
     IF IsNode(vals[i]) THEN h[IdOf(vals[i])].values[1] ELSE vals[i]]

\* all(i == values[0] for i in values).  all() stops at the first comparison
\* that is false.  With a Delayed on either side == is Delayed.__eq__ (directly
\* or reflected): it appends the other operand and returns True, so only two
\* concrete values can compare unequal.
Differs(values, i) ==
  ~IsNode(values[i]) /\ ~IsNode(values[1]) /\ ~PyEq(values[i], values[1])
ComparedUpTo(values) ==
  IF \E i \in 1..Len(values) : Differs(values, i)
  THEN CHOOSE i \in 1..Len(values) :
         Differs(values, i) /\ \A j \in 1..(i - 1) : ~Differs(values, j)
  ELSE Len(values)
\* What the i-th comparison appends, and to which node (0: to none).
Appends(values, i) ==
  IF IsNode(values[i]) THEN [to |-> IdOf(values[i]), val |-> values[1]]
  ELSE IF IsNode(values[1]) THEN [to |-> IdOf(values[1]), val |-> values[i]]
  ELSE [to |-> 0, val |-> values[i]]
AllEqual(h, values) ==
  LET done == [i \in 1..ComparedUpTo(values) |-> Appends(values, i)]
      got(id) == LET mine == SelectSeq(done, LAMBDA p : p.to = id)
                 IN  [j \in 1..Len(mine) |-> mine[j].val]
  IN  [heap |-> [id \in DOMAIN h |-> [h[id] EXCEPT !.values = @ \o got(id)]],
       eq |-> \A i \in 1..Len(values) : ~Differs(values, i)]

\* The children's verdicts combined with INVALID taking precedence.
CombinedInvalidFirst(returns) ==
  IF \A j \in 1..Len(returns) : returns[j] = "VALID" THEN "VALID"
  ELSE IF \E j \in 1..Len(returns) : returns[j] = "INVALID" THEN "INVALID"
  ELSE "UNRESOLVED"
\* The verdict of a node with children from its children's verdicts.
Combined(returns) ==
  IF \A j \in 1..Len(returns) : returns[j] = "VALID" THEN "VALID"
  ELSE IF \E j \in 1..Len(returns) : returns[j] = "UNRESOLVED" THEN "UNRESOLVED"
  ELSE "INVALID"

\* The last test of DBC_check on a node without children: DBC_values[0] is False.
Judged(node) == IsFalse(node.values[1])

\* The test that the asserted values agree, switched off.
Agreeing(eq) == TRUE
\* if not all(i == values[0] for i in values)
Agree(eq) == eq

\* Delayed.DBC_check(self, raise_errors), in the order of its statements.
RECURSIVE DBC_check(_, _, _)
RECURSIVE WithTerm(_, _, _)
RECURSIVE Dereferenced(_, _, _)
RECURSIVE Unanimous(_, _, _, _, _)
RECURSIVE Agreed(_, _, _)
RECURSIVE CheckChildren(_, _, _, _, _)
RECURSIVE ChildChecked(_, _, _, _, _)

\* The unresolved test, then: if self.DBC_term is not None ... elif no values:
\* raise LogicError(f"Variable not set `{self}`")
DBC_check(st, self, raise) ==
  IF Unsettled(st.heap, self) THEN Checked(st, "UNRESOLVED", NoDExc)
  ELSE IF st.heap[self].term THEN WithTerm(Term(st, self), self, raise)
  ELSE IF st.heap[self].values = <<>>
  THEN Checked(st, "raise", DExc("LogicError", self, <<>>))
  ELSE Dereferenced(st, self, raise)

\* self.DBC_values.append(self.DBC_term())
WithTerm(t, self, raise) ==
  IF t.c.st = "raise" THEN Checked(t.st, "raise", t.c.exc)
  ELSE IF t.st.full THEN Checked(t.st, "raise", NoDExc)
  ELSE Dereferenced(Store([t.st.heap EXCEPT ![self].values = Append(@, t.c.val)],
                          t.st.used, t.st.full), self, raise)

\* values = [i.DBC_values[0] if isinstance(i, Delayed) else i ...]
Dereferenced(st, self, raise) ==
  IF ~CanDeref(st.heap, st.heap[self].values)
  THEN Checked(st, "raise", DExc("IndexError", 0, <<>>))
  ELSE Unanimous(AllEqual(st.heap, Firsts(st.heap, st.heap[self].values)),
                 Firsts(st.heap, st.heap[self].values), st, self, raise)

\* if not all(i == values[0] for i in values): the ambiguity is raised or INVALID
Unanimous(cmp, values, st, self, raise) ==
  IF ~Agree(cmp.eq)
  THEN IF raise
       THEN Checked(Store(cmp.heap, st.used, st.full), "raise",
                    DExc("ContractViolationError", self, values))
       ELSE Checked(Store(cmp.heap, st.used, st.full), "INVALID", NoDExc)
  ELSE Agreed(Store(cmp.heap, st.used, st.full), self, raise)

\* if self.DBC_children: ...; then: if self.DBC_values[0] is False
Agreed(st, self, raise) ==
  IF st.heap[self].children # <<>>
  THEN IF st.heap[self].terminal
       THEN Checked(st, "raise", DExc("LogicError", 0, <<>>))
       ELSE CheckChildren(st, self, raise, 1, <<>>)
  ELSE IF Judged(st.heap[self])
  THEN IF raise
       THEN Checked(st, "raise", DExc("ContractViolationError", self, <<>>))
       ELSE Checked(st, "INVALID", NoDExc)
  ELSE Checked(st, "VALID", NoDExc)

\* returns = [i.DBC_check(raise_errors) for i in self.DBC_children], from the
\* i-th child on, and the verdict that follows from them.
CheckChildren(st, self, raise, i, returns) ==
  IF i > Len(st.heap[self].children) THEN Checked(st, Combined(returns), NoDExc)
  ELSE ChildChecked(DBC_check(st, st.heap[self].children[i], raise),
                    self, raise, i, returns)
ChildChecked(r, self, raise, i, returns) ==
  IF r.res = "raise" THEN r
  ELSE CheckChildren(Store(r.heap, r.used, r.full), self, raise, i + 1,
                     Append(returns, r.res))

\* [i.DBC_check(raise_errors=raise_errors) for i in variables], from the i-th on.
RECURSIVE CheckAll(_, _, _, _, _)
CheckAll(st, vs, raise, i, results) ==
  IF i > Len(vs)
  THEN [heap |-> st.heap, used |-> st.used, full |-> st.full, res |-> "ok",
        exc |-> NoDExc, results |-> results]
  ELSE LET r == DBC_check(st, vs[i], raise)
       IN  IF r.res = "raise"
           THEN [heap |-> r.heap, used |-> r.used, full |-> r.full, res |-> "raise",
                 exc |-> r.exc, results |-> results]
           ELSE CheckAll(Store(r.heap, r.used, r.full), vs, raise, i + 1,
                         Append(results, r.res))

\* The cap of resolve's loop: while (iterations := iterations + 1) < 100
IterationCap == 100

\* ------------------------------------------------- programs on Delayed nodes
\* An expression: a root (index Whole) or root[index], which chains a node.
Whole == 0 - 1
Path(root, index) == [root |-> root, index |-> index]
\* A statement:  lhs == value,  lhs == path,  lhs > c  or  (lhs > c) > c.
Equals(lhs, val) == [lhs |-> lhs, rel |-> "eq", byPath |-> FALSE, val |-> val, path |-> lhs]
EqualsNode(lhs, rhs) ==
  [lhs |-> lhs, rel |-> "eq", byPath |-> TRUE, val |-> NotImplemented, path |-> rhs]
Greater(lhs, c) == [lhs |-> lhs, rel |-> "gt", byPath |-> FALSE, val |-> IntV(c), path |-> lhs]
GreaterTwice(lhs, c) ==
  [lhs |-> lhs, rel |-> "gtgt", byPath |-> FALSE, val |-> IntV(c), path |-> lhs]

\* The statements a program of this model is made of; a program executes
\* some of them, in this order.
Statements ==
  << Equals(Path(RootM, Whole), IntV(1)),                \* m == 1
     EqualsNode(Path(RootN, Whole), Path(RootM, Whole)), \* n == m
     EqualsNode(Path(RootM, Whole), Path(RootN, Whole)), \* m == n
     Equals(Path(RootM, Whole), IntV(2)),                \* m == 2
     Equals(Path(RootM, Whole), BoolV(FALSE)),           \* m == False
     Equals(Path(RootM, Whole), ListV(<<1, 2>>)),        \* m == [1, 2]
     Equals(Path(RootN, Whole), IntV(1)),                \* n == 1
     Equals(Path(RootN, Whole), ListV(<<1, 2>>)),        \* n == [1, 2]
     Equals(Path(RootN, Whole), ListV(<<1, 3>>)),        \* n == [1, 3]
     Equals(Path(RootM, 1), IntV(2)),                    \* m[1] == 2
     Greater(Path(RootM, Whole), 1),                     \* m > 1
     Greater(Path(RootN, Whole), 1),                     \* n > 1
     Greater(Path(RootM, 0), 1),                         \* m[0] > 1
     EqualsNode(Path(RootM, 0), Path(RootN, 0)),         \* m[0] == n[0]
     EqualsNode(Path(RootN, 1), Path(RootM, 1)),         \* n[1] == m[1]
     GreaterTwice(Path(RootM, Whole), 1) >>              \* (m > 1) > 1

\* Evaluating an expression: the node it denotes and the heap afterwards.
Eval(st, path) ==
  IF path.index = Whole THEN [st |-> st, id |-> path.root]
  ELSE LET st1 == Blueprint(st, path.root, GetItem(path.index))
       IN  [st |-> st1, id |-> st1.used]

\* Executing a statement: left operand, right operand, then the operator.
\* In (lhs > c) > c the second > is applied to what the first returned: to a
\* node it chains another node, on True it is bool.__gt__ and changes nothing.
Exec(st, stmt) ==
  LET l == Eval(st, stmt.lhs)
      r == Eval(l.st, stmt.path)
      gt == Blueprint(l.st, l.id, Gt(stmt.val.v[1]))
      got == BlueprintResult(Gt(stmt.val.v[1]), gt.used)
  IN  IF stmt.rel = "gt" THEN gt
      ELSE IF stmt.rel = "gtgt"
      THEN IF IsNode(got) THEN Blueprint(gt, IdOf(got), Gt(stmt.val.v[1])) ELSE gt
      ELSE IF stmt.byPath
      THEN Store(DelayedEq(r.st.heap, l.id, Node(r.id)), r.st.used, r.st.full)
      ELSE Store(DelayedEq(l.st.heap, l.id, stmt.val), l.st.used, l.st.full)

\* A finished check or resolve: which it was, on what, and what it gave.
Finished(call, nodes, res, exc, results) ==
  [call |-> call, nodes |-> nodes, res |-> res, exc |-> exc, results |-> results]

\* The heap after a step is within the bounds of this model.
Fits(st) ==
  ~st.full /\ \A id \in DOMAIN st.heap : Len(st.heap[id].values) <= MaxValues

\* Nothing has been done with Delayed nodes: only the two roots exist.
Fresh == [id \in 1..MaxNodes |-> IF id <= Len(Roots) THEN Delayed(0, NoOp) ELSE Unused]
DelInit ==
  /\ heap = Fresh
  /\ used = Len(Roots)
  /\ program = <<>>
  /\ dpc = "build"
  /\ variables = <<>>
  /\ iterations = 0
  /\ checkResults = <<>>
  /\ before = Fresh
  /\ verdicts = <<>>
AuxInit == DelInit /\ raiseErrors = FALSE /\ definitions = <<>> /\ frames = <<>>

\* ----------------------------------------------------------------- wrapper
\* What the wrapped function may do with its arguments: return a value or raise.
FuncOutcomes == {Returned(v) : v \in Values} \cup {Raised(Exc("FuncError", {}, <<>>))}

\* No call is in progress.
CallInit ==
  /\ pc = "idle"
  /\ args = <<>>
  /\ kw = <<>>
  /\ injectables = <<>>
  /\ cursor = 1
  /\ evaluated = <<>>
  /\ invoked = 0
  /\ calledWith = NotCalled
  /\ funcOut = Running
  /\ outcome = Running

\* contract(reserved=..., evaluate=...) applied to a function whose slots carry
\* the chosen annotations.
Init ==
  /\ \E ma \in MetaSeqs(MaxMetas) :
       \E mb \in MetaSeqs(MaxMetas - Len(ma)) :
         \E mr \in MetaSeqs(MaxMetas - Len(ma) - Len(mb)) :
           metadata = [s \in Slots |-> IF s = "a" THEN ma ELSE IF s = "b" THEN mb ELSE mr]
  /\ annotated \in {f \in [Slots -> BOOLEAN] : \A s \in Slots : metadata[s] # <<>> => f[s]}
  /\ reserved \in {"x", "a"}
  /\ evaluate \in BOOLEAN
  /\ CallInit
  /\ SymInit
  /\ AuxInit

\* if not evaluate: the wrapper calls straight through.
NeverBypassed == FALSE
Bypassed == ~evaluate

\* injectables["return"] = result
BindNothing(inj, result) == inj
BindReturn(inj, result) ==
  [n \in DOMAIN inj \cup {"return"} |-> IF n = "return" THEN result ELSE inj[n]]

\* evaluate_annotations(annotations) returned: every entry was handled.
ChecksSkipped == TRUE
ChecksDone == cursor > Len(Items)

\* wrapper(func, *args, **kw) up to the first predicate: the first nPos
\* parameters are passed positionally, the others by keyword.
Call(vals, nPos) ==
  /\ pc = "idle"
  /\ args' = SubSeq(vals, 1, nPos)
  /\ kw' = [n \in {Params[i] : i \in (nPos + 1)..Len(Params)} |->
              vals[CHOOSE i \in 1..Len(Params) : Params[i] = n]]
  /\ IF Bypassed
     THEN /\ pc' = "bypass"
          /\ UNCHANGED <<injectables, outcome>>
     ELSE IF reserved \in Range(ParamKeys)
     THEN /\ pc' = "done"
          /\ outcome' = Raised(Exc("ValueError", {reserved}, <<>>))
          /\ UNCHANGED injectables
     ELSE /\ pc' = "check_params"
          /\ injectables' = ZipDict(ParamKeys, args')
          /\ UNCHANGED outcome
  /\ UNCHANGED <<cursor, evaluated, invoked, calledWith, funcOut>>
  /\ UNCHANGED <<contractVars, symVars, auxVars>>

\* if not evaluate: return func(*args, **kw)
Bypass ==
  /\ pc = "bypass"
  /\ \E out \in FuncOutcomes :
       /\ funcOut' = out
       /\ outcome' = out
  /\ invoked' = invoked + 1
  /\ calledWith' = [args |-> args, kw |-> kw]
  /\ pc' = "done"
  /\ UNCHANGED <<args, kw, injectables, cursor, evaluated>>
  /\ UNCHANGED <<contractVars, symVars, auxVars>>

\* One iteration of the loop over the metadata in evaluate_annotations.
CheckMeta ==
  /\ pc \in {"check_params", "check_return"}
  /\ cursor <= Len(Items)
  /\ LET slot == Items[cursor][1]
         idx == Items[cursor][2]
         r == MetaStep(slot, Library[metadata[slot][idx]], injectables)
     IN  /\ injectables' = r.inj
         /\ evaluated' = IF r.st = "" THEN evaluated
                         ELSE Append(evaluated,
                                     [slot |-> slot, idx |-> idx, st |-> r.st,
                                      res |-> r.res, env |-> r.env, syms |-> r.syms])
         /\ IF r.res = "raise"
            THEN /\ outcome' = Raised(r.exc)
                 /\ pc' = "done"
                 /\ UNCHANGED cursor
            ELSE /\ cursor' = cursor + 1
                 /\ UNCHANGED <<pc, outcome>>
  /\ UNCHANGED <<args, kw, invoked, calledWith, funcOut>>
  /\ UNCHANGED <<contractVars, symVars, auxVars>>

\* result = func(*args, **kw), once evaluate_annotations(annotations) returned.
Invoke ==
  /\ pc = "check_params"
  /\ ChecksDone
  /\ invoked' = invoked + 1
  /\ calledWith' = [args |-> args, kw |-> kw]
  /\ \E out \in FuncOutcomes :
       /\ funcOut' = out
       /\ IF out.kind = "raise"
          THEN /\ outcome' = out
               /\ pc' = "done"
               /\ UNCHANGED <<injectables, cursor>>
          ELSE IF annotated["return"]
          THEN /\ injectables' = BindReturn(injectables, out.value)
               /\ pc' = "check_return"
               /\ cursor' = 1
               /\ UNCHANGED outcome
          ELSE /\ outcome' = Returned(out.value)
               /\ pc' = "done"
               /\ UNCHANGED <<injectables, cursor>>
  /\ UNCHANGED <<args, kw, evaluated>>
  /\ UNCHANGED <<contractVars, symVars, auxVars>>

\* return result, once evaluate_annotations({"return": ...}) returned.
Return ==
  /\ pc = "check_return"
  /\ cursor > Len(Items)
  /\ outcome' = Returned(funcOut.value)
  /\ pc' = "done"
  /\ UNCHANGED <<args, kw, injectables, cursor, evaluated, invoked, calledWith, funcOut>>
  /\ UNCHANGED <<contractVars, symVars, auxVars>>

Next ==
  \/ \E vals \in [1..Len(Params) -> Values] : \E nPos \in 0..Len(Params) : Call(vals, nPos)
  \/ Bypass
  \/ CheckMeta
  \/ Invoke
  \/ Return

Spec == Init /\ [][Next]_vars

\* ------------------------------------------------ properties of the wrapper
\* The work items of the parameter checks and of the return check.
ParamItems == ItemsOf(ParamKeys)
ReturnItems == ItemsOf(<<"return">>)
MetaAt(item) == Library[metadata[item[1]][item[2]]]
\* The engine takes a metadata entry for a predicate of its slot when it is
\* callable and names the slot or the reserved identifier.
IsPredicate(item) == MetaAt(item).callable /\ Applicable(item[1], MetaAt(item).args)
\* The log entry of a work item, if the predicate was invoked.
EntryOf(item, k) == evaluated[k].slot = item[1] /\ evaluated[k].idx = item[2]
Passed(item) == \E k \in 1..Len(evaluated) : EntryOf(item, k) /\ evaluated[k].res = "pass"
\* Every predicate before the k-th item passed: the evaluator got to item k.
Reached(items, k) == \A j \in 1..(k - 1) : IsPredicate(items[j]) => Passed(items[j])

\* The value the caller passed for parameter p.
Pos(p) == CHOOSE i \in 1..Len(Params) : Params[i] = p
Actual(p) == IF Pos(p) <= Len(args) THEN args[Pos(p)] ELSE kw[p]
\* What a predicate of parameter p is about: every declared parameter with the
\* caller's value, the reserved identifier standing for p's value.
ActualEnv(p) ==
  [n \in Range(Params) \cup {reserved} |-> IF n = reserved THEN Actual(p) ELSE Actual(n)]
\* Its truth value on an environment that supplies all its names.
ValueOn(meta, env) ==
  IF Range(meta.args) \subseteq DOMAIN env
  THEN EvalBody(meta.body, 1, env, <<>>).st
  ELSE "open"

CallEnded == pc = "done" /\ evaluate
Violation(slot) == Raised(Exc("ContractViolationError", {slot}, <<>>))
ViolationNames(slot) ==
  /\ outcome.kind = "raise"
  /\ outcome.exc.cls = "ContractViolationError"
  /\ slot \in outcome.exc.names

\* C1 as stated: when a call with evaluation enabled has ended, every predicate
\* of a parameter p that the evaluator got to and that is false on p's actual
\* value and the other actual arguments made the call raise a Contract
\* Violation naming p.
FalsePredicateIsReported ==
  (CallEnded /\ reserved \notin Range(Params)) =>
    \A k \in 1..Len(ParamItems) :
      ( /\ IsPredicate(ParamItems[k])
        /\ Reached(ParamItems, k)
        /\ ValueOn(MetaAt(ParamItems[k]), ActualEnv(ParamItems[k][1])) = "false" )
      => ViolationNames(ParamItems[k][1])

\* A predicate that passed and gave a value to a free variable.
Binds(e) == e.res = "pass" /\ DOMAIN e.syms # {}
\* The environment a predicate of a slot is about once the variables of syms
\* are bound: for the return slot the reserved identifier and "return" stand
\* for the result.
BoundEnv(slot, syms) ==
  IF slot = "return"
  THEN Merge([n \in Range(Params) \cup {reserved, "return"} |->
                IF n \in {reserved, "return"} THEN funcOut.value ELSE Actual(n)], syms)
  ELSE Merge(ActualEnv(slot), syms)
\* Every predicate of the items holds on the actual values with syms bound.
AllAgree(items, syms) ==
  \A k \in 1..Len(items) :
    IsPredicate(items[k]) => ValueOn(MetaAt(items[k]), BoundEnv(items[k][1], syms)) = "true"

\* C2 as stated: when a predicate bound a free variable and every predicate of
\* the call holds on the actual values with that binding, the call succeeds
\* (returns what the function returned), and every predicate invoked after the
\* binding saw the variable with the bound value.
ConsistentBindingSucceeds ==
  (CallEnded /\ reserved \notin Range(Params)) =>
    \A j \in 1..Len(evaluated) : Binds(evaluated[j]) =>
      /\ \A k \in (j + 1)..Len(evaluated) : \A n \in DOMAIN evaluated[j].syms :
           /\ n \in DOMAIN evaluated[k].env
           /\ evaluated[k].env[n] = evaluated[j].syms[n]
      /\ ( /\ AllAgree(ParamItems, evaluated[j].syms)
           /\ funcOut.kind # "raise"
           /\ funcOut.kind = "return" => AllAgree(ReturnItems, evaluated[j].syms) )
         => outcome = funcOut /\ outcome.kind = "return"

\* C3 as stated, in its first half: when a predicate bound a free variable and
\* a later parameter predicate that the evaluator got to is false on the actual
\* values with that binding, the call raised a Contract Violation naming the
\* later predicate's parameter.
InconsistentBindingIsReported ==
  (CallEnded /\ reserved \notin Range(Params)) =>
    \A j \in 1..Len(evaluated) : Binds(evaluated[j]) =>
      \A k \in 1..Len(ParamItems) :
        ( /\ IsPredicate(ParamItems[k])
          /\ Reached(ParamItems, k)
          /\ \E i \in 1..(k - 1) : EntryOf(ParamItems[i], j)
          /\ DOMAIN evaluated[j].syms \cap Range(MetaAt(ParamItems[k]).args) # {}
          /\ ValueOn(MetaAt(ParamItems[k]),
                     BoundEnv(ParamItems[k][1], evaluated[j].syms)) = "false" )
        => ViolationNames(ParamItems[k][1])

\* A fresh symbol of the entry's predicate that no comparison gave a value.
LeftUnbound(e) == \E n \in DOMAIN e.syms : e.syms[n] = None
\* A formal parameter of some predicate of the call that is no declared
\* parameter, not the reserved identifier, and has no value in the environment.
NeverBound ==
  \E item \in Range(ParamItems) \cup Range(ReturnItems) :
    /\ IsPredicate(item)
    /\ \E n \in Range(MetaAt(item).args) \ (Range(Params) \cup {reserved, "return"}) :
         n \notin DOMAIN injectables

ParamCheckFailed ==
  \/ \E k \in 1..Len(evaluated) : evaluated[k].slot # "return" /\ evaluated[k].res = "raise"
  \/ outcome.kind = "raise" /\ outcome.exc.cls \in {"KeyError", "ValueError"}

\* C5: the wrapped function is invoked at most once per call; with evaluation
\* enabled it has been invoked only if every predicate of every parameter was
\* evaluated and passed; once a parameter check has failed the function has
\* not been invoked.
InvokedOnlyAfterChecks ==
  /\ invoked <= 1
  /\ (evaluate /\ invoked = 1) =>
       \A k \in 1..Len(ParamItems) : IsPredicate(ParamItems[k]) => Passed(ParamItems[k])
  /\ ParamCheckFailed => invoked = 0 /\ funcOut = Running

\* C5 witness: the function was invoked after two parameter predicates passed.
InvokedAfterPredicates ==
  /\ evaluate
  /\ invoked = 1
  /\ Len(ParamItems) = 2
  /\ \A k \in 1..2 : IsPredicate(ParamItems[k]) /\ Passed(ParamItems[k])

\* C6: during the return check "return" is bound to the function's result;
\* every return predicate is invoked with the reserved identifier and "return"
\* standing for the result and with every free variable the earlier predicates
\* bound; a return predicate that is false makes the call raise a Contract
\* Violation naming "return"; the call returns the result only when every
\* return predicate was evaluated and passed.
ReturnCheckedAgainstResult ==
  /\ pc = "check_return" =>
       /\ funcOut.kind = "return"
       /\ "return" \in DOMAIN injectables
       /\ injectables["return"] = funcOut.value
  /\ \A k \in 1..Len(evaluated) : evaluated[k].slot = "return" =>
       /\ funcOut.kind = "return"
       /\ {reserved, "return"} \subseteq DOMAIN evaluated[k].env
       /\ evaluated[k].env[reserved] = funcOut.value
       /\ evaluated[k].env["return"] = funcOut.value
       /\ \A j \in 1..(k - 1) : \A n \in DOMAIN evaluated[j].syms :
            /\ n \in DOMAIN evaluated[k].env
            /\ evaluated[k].env[n] = evaluated[j].syms[n]
       /\ evaluated[k].st = "false" => outcome = Violation("return")
  /\ (evaluate /\ outcome.kind = "return") =>
       \A k \in 1..Len(ReturnItems) : IsPredicate(ReturnItems[k]) => Passed(ReturnItems[k])

\* C6 witness: a return predicate compared the result with a free variable a
\* parameter predicate had bound, was false, and the call raised the violation.
ReturnViolationSeen ==
  \E k \in 1..Len(evaluated) :
    /\ evaluated[k].slot = "return"
    /\ evaluated[k].st = "false"
    /\ \E j \in 1..(k - 1) : Binds(evaluated[j])
    /\ invoked = 1
    /\ outcome = Violation("return")

\* C7: with evaluate = False a call invokes the function exactly once with the
\* caller's arguments, evaluates no predicate, and returns or raises what the
\* function returned or raised.
DisabledIsTransparent ==
  ~evaluate =>
    /\ evaluated = <<>>
    /\ invoked <= 1
    /\ pc = "done" =>
         /\ invoked = 1
         /\ calledWith = [args |-> args, kw |-> kw]
         /\ outcome = funcOut
         /\ outcome \in FuncOutcomes

\* C7 witness: a call with evaluation disabled returned although the reserved
\* identifier names an annotated parameter and a predicate is attached.
DisabledCallReturned ==
  /\ ~evaluate
  /\ pc = "done"
  /\ outcome.kind = "return"
  /\ reserved \in Range(ParamKeys)
  /\ \E k \in 1..Len(ParamItems) : IsPredicate(ParamItems[k])

\* The step keeps the value of every bound name outside keep.
Kept(keep) ==
  \A n \in DOMAIN injectables \ keep :
    n \in DOMAIN injectables' /\ injectables'[n] = injectables[n]
\* The predicate's first comparison equates two bound values that differ.
Conflicts(e) ==
  LET atom == MetaAt(<<e.slot, e.idx>>).body[1]
  IN  /\ atom.op = "eq"
      /\ ~IsSymbol(atom.l, e.env)
      /\ ~IsSymbol(atom.r, e.env)
      /\ Concrete(atom.l, e.env) # Concrete(atom.r, e.env)
\* A predicate that equates a bound name with a different value ends the call
\* with a Contract Violation.
ConflictEndsCall ==
  \A k \in 1..Len(evaluated) : Conflicts(evaluated[k]) =>
    /\ k = Len(evaluated)
    /\ pc = "done"
    /\ outcome = Violation(evaluated[k].slot)

\* C8 as stated: no step of a checked call changes the value of a name of the
\* environment, and a predicate that would rebind a bound name to a different
\* value ends the call with an error.
NoNameEverChanges == [][Kept({})]_vars /\ []ConflictEndsCall

\* C8 as amended: no step changes the value of a name of the environment other
\* than the reserved identifier, which is rebound to each slot's value in
\* turn; a predicate that equates a bound name with a different value ends
\* the call with a Contract Violation naming its slot.
OnlyReservedRebinds == [][Kept({reserved})]_vars /\ []ConflictEndsCall

\* C8 witness: a later predicate required a free variable to differ from the
\* value an earlier predicate had bound, and the call ended with the variable
\* unchanged.
ConflictSeen ==
  \E k \in 1..Len(evaluated) : \E j \in 1..(k - 1) :
    /\ Conflicts(evaluated[k])
    /\ \E n \in DOMAIN evaluated[j].syms :
         /\ Binds(evaluated[j])
         /\ n \in DOMAIN injectables
         /\ injectables[n] = evaluated[j].syms[n]
    /\ outcome.kind = "raise"

\* ------------------------------------------- comparisons on bare symbols
\* A decorated function with no annotations, never called: the state the
\* module is in while UnresolvedSymbols are used on their own.
InitSym ==
  /\ metadata = [s \in Slots |-> <<>>]
  /\ annotated = [s \in Slots |-> FALSE]
  /\ reserved = "x"
  /\ evaluate = TRUE
  /\ CallInit
  /\ SymInit
  /\ AuxInit

\* s == v, or (reflected) v == s: the int's __eq__ returns NotImplemented and
\* Python runs s.__eq__(v) instead.
EqValue(s, v, reflected) ==
  LET e == SymbolEq(s, symval[s], ValOperand(v))
  IN  /\ symval' = [symval EXCEPT ![s] = e.self]
      /\ last' = Compared(s, ValOperand(v), reflected, symval, e)
      /\ UNCHANGED undefined
      /\ UNCHANGED <<contractVars, callVars, auxVars>>

\* s == t for two symbols.
EqSymbols(s, t) ==
  LET e == SymbolEq(s, symval[s], SymOperand(t, symval[t]))
  IN  /\ symval' = [symval EXCEPT ![t] = e.other, ![s] = e.self]
      /\ last' = Compared(s, SymOperand(t, symval[t]), FALSE, symval, e)
      /\ undefined' = IF symval[s] = None /\ symval[t] = None
                      THEN undefined \cup {{s, t}} ELSE undefined
      /\ UNCHANGED <<contractVars, callVars, auxVars>>

NextSym ==
  \/ \E s \in SymNames : \E v \in Values : \E reflected \in BOOLEAN :
       EqValue(s, v, reflected)
  \/ \E s \in SymNames : \E t \in SymNames \ {s} : EqSymbols(s, t)

SpecSym == InitSym /\ [][NextSym]_vars

\* ------------------------------------------------ properties of the symbols
\* The last comparison was made on a symbol that held a value.
SelfWasBound == last.self # "" /\ last.pre[last.self] # None
\* ... against a concrete value or a symbol holding a value.
OtherWasBound == ~last.other.sym \/ last.other.val # None
\* What the comparison returned is true-like.
LastTrueLike ==
  last.ret = "True" \/ (last.ret = "self" /\ symval[last.self] # None)
LastRaisedViolation ==
  last.ret = "raise" /\ last.exc.cls = "ContractViolationError"

\* C9: over any sequence of == on UnresolvedSymbols a value, once bound, never
\* changes; a bound symbol compared with an unequal value (either operand
\* order) or an unequally bound symbol raises ContractViolationError and
\* leaves both operands unchanged; compared with an equal value or an equally
\* bound symbol it returns a true-like result.
BoundSymbolNeverChanges ==
  /\ \A n \in SymNames : last.pre[n] # None => symval[n] = last.pre[n]
  /\ (SelfWasBound /\ OtherWasBound /\ last.other.val # last.pre[last.self])
       => (LastRaisedViolation /\ symval = last.pre)
  /\ (SelfWasBound /\ OtherWasBound /\ last.other.val = last.pre[last.self])
       => (LastTrueLike /\ symval = last.pre)

\* C9 witness: v == s was evaluated for a symbol s bound to another value, and
\* raised.
BoundSymbolMismatchSeen ==
  /\ SelfWasBound
  /\ ~last.other.sym
  /\ last.reflected
  /\ last.other.val # last.pre[last.self]
  /\ last.ret = "raise"

\* The last comparison was between two symbols.
SymbolsCompared == last.self # "" /\ last.other.sym
BothWereUnbound ==
  SymbolsCompared /\ last.pre[last.self] = None /\ last.other.val = None
OneWasBound ==
  SymbolsCompared /\ (last.pre[last.self] = None) # (last.other.val = None)
\* After the comparison both symbols hold the value one of them held before.
Propagated ==
  /\ last.ret # "raise"
  /\ symval[last.self] # None
  /\ symval[last.self] = symval[last.other.name]
  /\ symval[last.self] \in {last.pre[last.self], last.other.val}

\* C10 as stated: comparing two unbound symbols raises no error and leaves both
\* unbound; once either is bound, the next comparison between the two gives
\* the other symbol the same value.
UnboundComparisonIsDeferred ==
  /\ BothWereUnbound => (last.ret # "raise" /\ symval = last.pre)
  /\ OneWasBound => Propagated

\* C10 as amended: comparing two unbound symbols raises ContractViolationError
\* naming both and leaves both unbound; once either is bound, the next
\* comparison between the two gives the other symbol the same value.
UnboundComparisonRaises ==
  /\ BothWereUnbound =>
       /\ LastRaisedViolation
       /\ last.exc.names = {last.self, last.other.name}
       /\ symval = last.pre
  /\ OneWasBound => Propagated

\* C10 witness: two symbols were compared while both unbound, one of them was
\* bound since, and the comparison between the two has just bound the other.
PropagatedAfterUndefined ==
  /\ OneWasBound
  /\ {last.self, last.other.name} \in undefined
  /\ Propagated

\* ------------------------------------------------- Delayed: build and check
\* A program of at most MaxStmts statements on the variables m and n is
\* executed, then at most MaxChecks checks (DBC_check on a root, or resolve on
\* a list of roots) are made on what it built.
Lists == {<<RootM>>, <<RootM, RootN>>}

InitDel ==
  /\ metadata = [s \in Slots |-> <<>>]
  /\ annotated = [s \in Slots |-> FALSE]
  /\ reserved = "x"
  /\ evaluate = TRUE
  /\ CallInit
  /\ SymInit
  /\ DelInit
  /\ raiseErrors \in BOOLEAN
  /\ definitions = <<>>
  /\ frames = <<>>

Idle == dpc \in {"build", "checked"} /\ Len(verdicts) < MaxChecks

\* One statement of the program is executed.
Statement(s) ==
  /\ dpc = "build"
  /\ Len(program) < MaxStmts
  /\ program # <<>> => s > program[Len(program)]
  /\ LET st == Exec(Store(heap, used, FALSE), Statements[s])
     IN  /\ Fits(st)
         /\ heap' = st.heap
         /\ used' = st.used
  /\ program' = Append(program, s)
  /\ UNCHANGED <<dpc, raiseErrors, variables, iterations, checkResults, before, verdicts>>
  /\ UNCHANGED <<contractVars, callVars, symVars, decVars, parVars>>

\* root.DBC_check(raise_errors)
Check(root) ==
  /\ Idle
  /\ LET r == DBC_check(Store(heap, used, FALSE), root, raiseErrors)
     IN  /\ Fits(r)
         /\ heap' = r.heap
         /\ used' = r.used
         /\ verdicts' = Append(verdicts, Finished("check", <<root>>, r.res, r.exc, <<>>))
  /\ before' = heap
  /\ dpc' = "checked"
  /\ UNCHANGED <<program, raiseErrors, variables, iterations, checkResults>>
  /\ UNCHANGED <<contractVars, callVars, symVars, decVars, parVars>>

\* resolve(vs, raise_errors) is called: iterations = 0
ResolveStart(vs) ==
  /\ Idle
  /\ variables' = vs
  /\ iterations' = 0
  /\ checkResults' = <<>>
  /\ before' = heap
  /\ dpc' = "resolving"
  /\ UNCHANGED <<heap, used, program, raiseErrors, verdicts>>
  /\ UNCHANGED <<contractVars, callVars, symVars, decVars, parVars>>

\* The loop left after its first pass, whatever the pass gave.
AnyPassEnds(results) == TRUE
\* if all(i != TenaryReturn.UNRESOLVED for i in check_results): break
NoneUnresolved(results) == \A i \in 1..Len(results) : results[i] # "UNRESOLVED"
\* return all(i == TenaryReturn.VALID for i in check_results)
AllValid(results) ==
  IF \A i \in 1..Len(results) : results[i] = "VALID" THEN "True" ELSE "False"

\* One turn of resolve's loop: every variable is checked; the loop is left
\* when none is UNRESOLVED, and the function then returns whether all are
\* VALID.  An exception of a check leaves resolve.
ResolvePass ==
  /\ dpc = "resolving"
  /\ iterations + 1 < IterationCap
  /\ iterations' = iterations + 1
  /\ LET r == CheckAll(Store(heap, used, FALSE), variables, raiseErrors, 1, <<>>)
     IN  /\ Fits(r)
         /\ heap' = r.heap
         /\ used' = r.used
         /\ IF r.res = "raise"
            THEN /\ verdicts' = Append(verdicts,
                       Finished("resolve", variables, "raise", r.exc, r.results))
                 /\ dpc' = "checked"
                 /\ UNCHANGED checkResults
            ELSE IF NoneUnresolved(r.results)
            THEN /\ verdicts' = Append(verdicts,
                       Finished("resolve", variables, AllValid(r.results), NoDExc,
                                r.results))
                 /\ dpc' = "checked"
                 /\ checkResults' = r.results
            ELSE /\ checkResults' = r.results
                 /\ UNCHANGED <<verdicts, dpc>>
  /\ UNCHANGED <<program, raiseErrors, variables, before>>
  /\ UNCHANGED <<contractVars, callVars, symVars, decVars, parVars>>

\* The loop's condition fails: raise LogicError("colud not resolve all variables")
ResolveCap ==
  /\ dpc = "resolving"
  /\ iterations + 1 >= IterationCap
  /\ iterations' = iterations + 1
  /\ verdicts' = Append(verdicts,
        Finished("resolve", variables, "raise", DExc("LogicError", 0, <<>>),
                 checkResults))
  /\ dpc' = "checked"
  /\ UNCHANGED <<heap, used, program, raiseErrors, variables, checkResults, before>>
  /\ UNCHANGED <<contractVars, callVars, symVars, decVars, parVars>>

NextDel ==
  \/ \E s \in 1..Len(Statements) : Statement(s)
  \/ \E root \in Range(RootIds) : Check(root)
  \/ \E vs \in Lists : ResolveStart(vs)
  \/ ResolvePass
  \/ ResolveCap

SpecDel == InitDel /\ [][NextDel]_vars

\* ------------------------------------------------ properties of DBC_check
\* The last finished check or resolve, and whether it was a DBC_check on a root:
\* `before` is then the heap it started from.
LastVerdict == verdicts[Len(verdicts)]
JustChecked == dpc = "checked" /\ verdicts # <<>> /\ LastVerdict.call = "check"
CheckedNode == LastVerdict.nodes[1]

\* The values a node was asserted equal to, a Delayed among them standing for
\* its own first value.
Asserted(h, id) == Firsts(h, h[id].values)
\* Every dependency of the node is settled on a concrete value.
Settled(h, id) ==
  /\ h[id].values # <<>>
  /\ ~Unsettled(h, id)
  /\ \A i \in 1..Len(h[id].values) : ~IsNode(Asserted(h, id)[i])
\* The asserted values are not all equal.
Ambiguous(h, id) ==
  \E i, j \in 1..Len(h[id].values) : ~PyEq(Asserted(h, id)[i], Asserted(h, id)[j])

\* C11: DBC_check on a node whose dependencies are all settled and whose
\* asserted values are not all equal yields INVALID when raise_errors is false,
\* and when it is true raises ContractViolationError naming the node and
\* listing the asserted values in the order they were asserted.
AmbiguityIsReported ==
  (JustChecked /\ Settled(before, CheckedNode) /\ Ambiguous(before, CheckedNode))
    => IF raiseErrors
       THEN /\ LastVerdict.res = "raise"
            /\ LastVerdict.exc = DExc("ContractViolationError", CheckedNode,
                                      Asserted(before, CheckedNode))
       ELSE LastVerdict.res = "INVALID"

\* C11 witness: m == 1 then m == 2 was checked with raise_errors and the
\* ambiguity [1, 2] on m was raised.
AmbiguityRaised ==
  /\ JustChecked
  /\ raiseErrors
  /\ Settled(before, CheckedNode) /\ Ambiguous(before, CheckedNode)
  /\ LastVerdict.exc = DExc("ContractViolationError", RootM, <<IntV(1), IntV(2)>>)

\* The checked root had no children, or its only child is a terminal node:
\* the root's verdict is then that child's verdict.
Childless(h, id) == h[id].children = <<>>
OnlyChild(h, id) == h[id].children[1]
TerminalOnly(h, id) ==
  /\ Len(h[id].children) = 1
  /\ h[OnlyChild(h, id)].terminal
  /\ h[OnlyChild(h, id)].children = <<>>
\* The values of a node agree, and agree on boolean true.
Agrees(h, id) == Settled(h, id) /\ ~Ambiguous(h, id)
AgreedValue(h, id) == Asserted(h, id)[1]
IsTrue(val) == val.k = "bool" /\ val.v = <<1>>

\* C12: a childless non-terminal node whose asserted values agree is VALID
\* whatever the agreed value; a childless terminal node whose values agree is
\* VALID only if the agreed value is boolean true, and otherwise INVALID, or
\* raises ContractViolationError "Violation" under raise_errors.
ChildlessVerdictFollowsKind ==
  /\ (JustChecked /\ Childless(before, CheckedNode) /\ Agrees(before, CheckedNode))
       => LastVerdict.res = "VALID"
  /\ (JustChecked /\ TerminalOnly(before, CheckedNode) /\ Agrees(before, CheckedNode)
        /\ Agrees(heap, OnlyChild(before, CheckedNode)))
       => IF IsTrue(AgreedValue(heap, OnlyChild(before, CheckedNode)))
          THEN LastVerdict.res = "VALID"
          ELSE IF raiseErrors
          THEN /\ LastVerdict.res = "raise"
               /\ LastVerdict.exc = DExc("ContractViolationError",
                                         OnlyChild(before, CheckedNode), <<>>)
          ELSE LastVerdict.res = "INVALID"

\* ---------------------------------------------------- properties of resolve
\* The last finished operation was a resolve; `iterations` is then the value
\* its counter ended with.
JustResolved == dpc = "checked" /\ verdicts # <<>> /\ LastVerdict.call = "resolve"
\* resolve returned a boolean: after a pass within the cap in which no node
\* was UNRESOLVED, and the boolean says whether all nodes were VALID.
SettledReturn ==
  /\ LastVerdict.res \in {"True", "False"}
  /\ iterations < IterationCap
  /\ Len(LastVerdict.results) = Len(LastVerdict.nodes)
  /\ \A i \in 1..Len(LastVerdict.results) : LastVerdict.results[i] # "UNRESOLVED"
  /\ (LastVerdict.res = "True")
       = (\A i \in 1..Len(LastVerdict.results) : LastVerdict.results[i] = "VALID")
\* resolve raised its LogicError: the counter reached the cap and the last
\* pass left a node UNRESOLVED.
CapRaised ==
  /\ LastVerdict.res = "raise"
  /\ LastVerdict.exc = DExc("LogicError", 0, <<>>)
  /\ iterations = IterationCap
  /\ \E i \in 1..Len(LastVerdict.results) : LastVerdict.results[i] = "UNRESOLVED"
\* A DBC_check of some pass raised and its exception left resolve.
CheckRaised ==
  /\ LastVerdict.res = "raise"
  /\ iterations < IterationCap
  /\ Len(LastVerdict.results) < Len(LastVerdict.nodes)
  /\ \/ LastVerdict.exc.cls = "LogicError" /\ LastVerdict.exc.node # 0
     \/ LastVerdict.exc.cls = "ContractViolationError" /\ raiseErrors
     \/ LastVerdict.exc.cls \in {"IndexError", "AttributeError"}

Circular ==
  /\ Len(program) = 2
  /\ Statements[program[1]] = EqualsNode(Path(RootN, Whole), Path(RootM, Whole))
  /\ Statements[program[2]] = EqualsNode(Path(RootM, Whole), Path(RootN, Whole))

\* C14: for two roots asserted equal to each other in both directions and
\* never given a concrete value, no check of either is VALID: each DBC_check
\* is UNRESOLVED, and resolve on both ends at the cap with LogicError.
CircularIsDefinitionError ==
  Circular =>
    /\ JustChecked => LastVerdict.res = "UNRESOLVED"
    /\ (JustResolved /\ LastVerdict.nodes = <<RootM, RootN>>) => CapRaised
    /\ \A i \in 1..Len(checkResults) : checkResults[i] = "UNRESOLVED"

\* The i-th operation settled its nodes (no exception, no node UNRESOLVED) and
\* the next operation repeated it.
SettledAt(i) == verdicts[i].res \in {"VALID", "INVALID", "True", "False"}
RepeatedAt(i) ==
  /\ verdicts[i + 1].call = verdicts[i].call
  /\ verdicts[i + 1].nodes = verdicts[i].nodes

\* C15: when a DBC_check or a resolve has settled its nodes and is repeated
\* with no new assertion in between, it gives the same result, node by node.
RepeatedCheckAgrees ==
  \A i \in 1..(Len(verdicts) - 1) :
    (SettledAt(i) /\ RepeatedAt(i))
      => /\ verdicts[i + 1].res = verdicts[i].res
         /\ verdicts[i + 1].results = verdicts[i].results

\* The nodes constructed so far, and those that are terminal.
Constructed == 1..used
TerminalNodes == {id \in Constructed : heap[id].terminal}
\* The LogicError of DBC_check on a terminal node that has children; the cap
\* of resolve raises the same class, but only when its counter is at the cap.
TerminalErrorRaised ==
  /\ dpc = "checked" /\ verdicts # <<>>
  /\ LastVerdict.res = "raise"
  /\ LastVerdict.exc = DExc("LogicError", 0, <<>>)
  /\ (LastVerdict.call = "resolve" => iterations < IterationCap)

\* C16: whatever operators were applied to Delayed nodes, no terminal node
\* has children, and no DBC_check raises the LogicError for a terminal node
\* with children.
TerminalNodesAreLeaves ==
  /\ \A id \in TerminalNodes : heap[id].children = <<>>
  /\ ~TerminalErrorRaised

\* C16 witness: (m > 1) > 1 was executed, and the terminal node it chained on
\* m has been evaluated by a check.
ComparisonOfComparisonChecked ==
  /\ \E i \in 1..Len(program) : Statements[program[i]].rel = "gtgt"
  /\ \E id \in TerminalNodes : heap[id].values # <<>>
  /\ JustChecked

\* --------------------------------------------- decorators.contract: one call
\* A derived variable of contract(**variables): its name, and either a lambda
\* with its formal parameters that returns one of them, or no callable.
Definition(name, formals, result) ==
  [name |-> name, callable |-> TRUE, args |-> formals, result |-> result]
NoDefinition(name) == [name |-> name, callable |-> FALSE, args |-> <<>>, result |-> ""]

\* The definitions a contract of this model may be given.
Definitions ==
  << Definition("m", <<"a">>, "a"),           \* m=lambda a: a
     Definition("m", <<"c">>, "c"),           \* m=lambda c: c        (c unknown)
     Definition("n", <<"b", "c">>, "b"),      \* n=lambda b, c: b     (c unknown)
     Definition("n", <<"a", "b">>, "b"),      \* n=lambda a, b: b
     Definition("n", <<"c", "d">>, "c"),      \* n=lambda c, d: c     (c, d unknown)
     NoDefinition("m") >>                     \* m=1
\* **variables is a dict: no two definitions have the same name.
DefSeqs ==
  {ds \in UNION {[1..k -> 1..Len(Definitions)] : k \in 0..2} :
     \A i, j \in DOMAIN ds : i # j => Definitions[ds[i]].name # Definitions[ds[j]].name}

\* The metadata an annotation of this model may carry: a predicate names the
\* parameter it is attached to.
Predicates ==
  << Lambda(<<"a">>, <<Atom("gt", Name("a"), Const(1))>>),          \* lambda a: a > 1
     Lambda(<<"b">>, <<Atom("gt", Name("b"), Const(1))>>),          \* lambda b: b > 1
     Lambda(<<"b", "m">>, <<Atom("eq", Name("b"), Name("m"))>>),    \* lambda b, m: b == m
     Lambda(<<"a", "n">>, <<Atom("eq", Name("a"), Name("n"))>>),    \* lambda a, n: a == n
     Lambda(<<"a", "b">>, <<Atom("eq", Name("a"), Name("b"))>>),    \* lambda a, b: a == b
     NonCallable >>
PredicateSeqs(n) == UNION {[1..k -> 1..Len(Predicates)] : k \in 0..n}

\* _RESERVED
Reserved == {"pre", "post"}
\* get_annotations(func).keys(): the annotated parameters, then "return".
AnnotationKeys == ParamKeys \o (IF annotated["return"] THEN <<"return">> ELSE <<>>)
\* argv = {k: v for k, v in zip(annotations.keys(), args)}
Argv == ZipDict(AnnotationKeys, args)
\* The ValueErrors of _contract, by their message and the names it shows.
ValueError(message, names) == Exc("ValueError", names, <<message>>)

\* meta(*[injectables[i] for i in meta_args]) on concrete values.
Holds(atom, env) ==
  LET val(t) == IF t.k = "const" THEN t.v ELSE env[t.n]
  IN  IF atom.op = "eq" THEN val(atom.l) = val(atom.r) ELSE val(atom.l) > val(atom.r)
True(meta, env) == \A i \in 1..Len(meta.body) : Holds(meta.body[i], env)

\* The (slot, index) pairs the loop over annotations.items() visits.
Annotations == ItemsOf(AnnotationKeys)
\* A predicate evaluated: its slot, its index, and whether it was true.
Evaluation(slot, i, true) == [slot |-> slot, i |-> i, true |-> true]

\* contract(**definitions) applied to a function whose parameters carry the
\* chosen annotations.
InitDec ==
  /\ \E ma \in PredicateSeqs(MaxMetas) :
       \E mb \in PredicateSeqs(MaxMetas - Len(ma)) :
         metadata = [s \in Slots |-> IF s = "a" THEN ma ELSE IF s = "b" THEN mb ELSE <<>>]
  /\ annotated \in {f \in [Slots -> BOOLEAN] : \A s \in Slots : metadata[s] # <<>> => f[s]}
  /\ reserved = "x"
  /\ evaluate = TRUE
  /\ definitions \in DefSeqs
  /\ CallInit
  /\ SymInit
  /\ DelInit
  /\ raiseErrors = FALSE
  /\ frames = <<>>

\* _contract(func, variables, pre, post, *args, **kw) up to the definitions:
\* the decorator package hands over every argument positionally.
Decorated(vals) ==
  /\ pc = "idle"
  /\ args' = vals
  /\ IF Range(AnnotationKeys) \cap Reserved # {}
     THEN /\ pc' = "done"
          /\ outcome' = Raised(ValueError("Argument names are not allowed be",
                                          Range(AnnotationKeys) \cap Reserved))
     ELSE /\ pc' = "definitions"
          /\ UNCHANGED outcome
  /\ UNCHANGED <<kw, injectables, cursor, evaluated, invoked, calledWith, funcOut>>
  /\ UNCHANGED <<contractVars, symVars, auxVars>>

\* The names of a definition's parameters that are no keys of annotations.
Unknown(definition) == Range(definition.args) \ Range(AnnotationKeys)

\* One turn of the loop over variables.items().
Define ==
  /\ pc = "definitions"
  /\ cursor <= Len(definitions)
  /\ LET definition == Definitions[definitions[cursor]]
     IN  IF ~definition.callable
         THEN /\ outcome' = Raised(ValueError("Expected callable for dependency",
                                              {definition.name}))
              /\ pc' = "done"
              /\ UNCHANGED <<injectables, cursor>>
         ELSE IF Unknown(definition) # {}
         THEN /\ outcome' = Raised(ValueError("Unkown argument names", Unknown(definition)))
              /\ pc' = "done"
              /\ UNCHANGED <<injectables, cursor>>
         ELSE /\ injectables' =
                   [n \in DOMAIN injectables \cup {definition.name} |->
                      IF n = definition.name THEN Argv[definition.result]
                      ELSE injectables[n]]
              /\ cursor' = cursor + 1
              /\ UNCHANGED <<outcome, pc>>
  /\ UNCHANGED <<args, kw, evaluated, invoked, calledWith, funcOut>>
  /\ UNCHANGED <<contractVars, symVars, auxVars>>

\* injectables |= argv
Inject ==
  /\ pc = "definitions"
  /\ cursor > Len(definitions)
  /\ injectables' = [n \in DOMAIN injectables \cup DOMAIN Argv |->
                       IF n \in DOMAIN Argv THEN Argv[n] ELSE injectables[n]]
  /\ pc' = "check_params"
  /\ cursor' = 1
  /\ UNCHANGED <<args, kw, evaluated, invoked, calledWith, funcOut, outcome>>
  /\ UNCHANGED <<contractVars, symVars, auxVars>>

\* One metadata entry of the loop over annotations.items(): an entry that is
\* no callable, or does not name its own parameter, is passed over.
Examine ==
  /\ pc = "check_params"
  /\ cursor <= Len(Annotations)
  /\ LET slot == Annotations[cursor][1]
         i == Annotations[cursor][2]
         meta == Predicates[metadata[slot][i]]
         missing == Range(meta.args) \ DOMAIN injectables
     IN  IF ~meta.callable \/ slot \notin Range(meta.args)
         THEN /\ cursor' = cursor + 1
              /\ UNCHANGED <<evaluated, outcome, pc>>
         ELSE IF missing # {}
         THEN /\ outcome' = Raised(Exc("ValueError", missing, <<"Cannot inject", slot>>))
              /\ pc' = "done"
              /\ UNCHANGED <<evaluated, cursor>>
         ELSE IF ~True(meta, injectables)
         THEN /\ outcome' = Raised(ValueError("Contract violated for argument", {slot}))
              /\ evaluated' = Append(evaluated, Evaluation(slot, i, FALSE))
              /\ pc' = "done"
              /\ UNCHANGED cursor
         ELSE /\ evaluated' = Append(evaluated, Evaluation(slot, i, TRUE))
              /\ cursor' = cursor + 1
              /\ UNCHANGED <<outcome, pc>>
  /\ UNCHANGED <<args, kw, injectables, invoked, calledWith, funcOut>>
  /\ UNCHANGED <<contractVars, symVars, auxVars>>

\* result = func(*args, **kw); pre and post are None; return result
Run ==
  /\ pc = "check_params"
  /\ cursor > Len(Annotations)
  /\ invoked' = invoked + 1
  /\ calledWith' = [args |-> args, kw |-> kw]
  /\ \E out \in FuncOutcomes :
       /\ funcOut' = out
       /\ outcome' = out
  /\ pc' = "done"
  /\ UNCHANGED <<args, kw, injectables, cursor, evaluated>>
  /\ UNCHANGED <<contractVars, symVars, auxVars>>

NextDec ==
  \/ \E vals \in [1..Len(Params) -> Values] : Decorated(vals)
  \/ Define
  \/ Inject
  \/ Examine
  \/ Run

SpecDec == InitDec /\ [][NextDec]_vars

\* ------------------------------------------- properties of decorators.contract
\* The parameters of a definition that the wrapped function does not declare.
Undeclared(definition) == Range(definition.args) \ Range(Params)
DefinitionAt(i) == Definitions[definitions[i]]
SomeUndeclared == \E i \in DOMAIN definitions : Undeclared(DefinitionAt(i)) # {}

\* C17: when a definition has a parameter the wrapped function does not
\* declare, no predicate is evaluated, the function is not invoked, and the
\* call ends with the error that lists exactly the undeclared names of such a
\* definition.
UndeclaredNamesAreListed ==
  SomeUndeclared =>
    /\ evaluated = <<>>
    /\ invoked = 0
    /\ pc = "done" =>
         \E i \in DOMAIN definitions :
           /\ Undeclared(DefinitionAt(i)) # {}
           /\ outcome = Raised(ValueError("Unkown argument names",
                                          Undeclared(DefinitionAt(i))))

\* ------------------------------------------------ the reserved identifier
\* C18: a contract whose reserved identifier is the name of a declared
\* parameter is rejected when it is attached, whatever evaluate is: the
\* wrapped function is never invoked through it, no predicate is evaluated,
\* and the only way a call can end is the configuration error.
ReservedCollisionIsRejected ==
  reserved \in Range(Params) =>
    /\ invoked = 0
    /\ evaluated = <<>>
    /\ pc = "done" => outcome = Raised(Exc("ValueError", {reserved}, <<>>))

\* ------------------------------------------ concurrent calls of one wrapper
\* Two threads call the same wrapped function.  What a call works on are the
\* locals of its own activation of wrapper (args, injectables, the position
\* in evaluate_annotations, result); the contract is shared and only read.
\* A thread is switched between two predicates, not inside one: a predicate
\* touches nothing but its own call's environment and symbols.
Threads == {1, 2}
Frame(p, a, inj, c, out, res) ==
  [pc |-> p, args |-> a, injectables |-> inj, cursor |-> c, funcOut |-> out,
   outcome |-> res]
NoFrame == Frame("idle", <<>>, <<>>, 1, Running, Running)

\* The (slot, index) pairs a call visits at its stage.
FrameItems(f) ==
  IF f.pc = "check_return" THEN ItemsOf(<<"return">>) ELSE ItemsOf(ParamKeys)

\* injectables kept in one dictionary that every call writes into.
SharedEnvironment(fs, t, vals) ==
  LET mine == ZipDict(ParamKeys, vals)
      other == fs[CHOOSE u \in Threads : u # t].injectables
  IN  [n \in DOMAIN mine \cup DOMAIN other |->
         IF n \in DOMAIN other THEN other[n] ELSE mine[n]]
\* injectables = dict(zip(annotations.keys(), args)): a local of the call.
Environment(fs, t, vals) == ZipDict(ParamKeys, vals)

InitPar ==
  /\ \E ma \in MetaSeqs(MaxMetas) :
       \E mb \in MetaSeqs(MaxMetas - Len(ma)) :
         metadata = [s \in Slots |-> IF s = "a" THEN ma ELSE IF s = "b" THEN mb ELSE <<>>]
  /\ annotated = [s \in Slots |-> s # "return"]
  /\ reserved = "x"
  /\ evaluate = TRUE
  /\ CallInit
  /\ SymInit
  /\ DelInit
  /\ raiseErrors = FALSE
  /\ definitions = <<>>
  /\ frames = [t \in Threads |-> NoFrame]

\* Thread t calls the wrapper with positional arguments.
Enter(t, vals) ==
  /\ frames[t].pc = "idle"
  /\ frames' = [frames EXCEPT ![t] =
                  Frame("check_params", vals, Environment(frames, t, vals), 1,
                        Running, Running)]
  /\ UNCHANGED <<contractVars, callVars, symVars, delVars, decVars>>

\* Thread t evaluates its next metadata entry.
Evaluate(t) ==
  LET f == frames[t]
      slot == FrameItems(f)[f.cursor][1]
      idx == FrameItems(f)[f.cursor][2]
      r == MetaStep(slot, Library[metadata[slot][idx]], f.injectables)
  IN  /\ f.pc \in {"check_params", "check_return"}
      /\ f.cursor <= Len(FrameItems(f))
      /\ frames' = [frames EXCEPT ![t] =
                      IF r.res = "raise"
                      THEN Frame("done", f.args, r.inj, f.cursor, f.funcOut, Raised(r.exc))
                      ELSE Frame(f.pc, f.args, r.inj, f.cursor + 1, f.funcOut, f.outcome)]
      /\ UNCHANGED <<contractVars, callVars, symVars, delVars, decVars>>

\* Thread t invokes the wrapped function; there is no return annotation to
\* check, so the call returns what the function returned.
Proceed(t) ==
  LET f == frames[t]
  IN  /\ f.pc = "check_params"
      /\ f.cursor > Len(FrameItems(f))
      /\ \E out \in FuncOutcomes :
           frames' = [frames EXCEPT ![t] =
                        Frame("done", f.args, f.injectables, f.cursor, out, out)]
      /\ UNCHANGED <<contractVars, callVars, symVars, delVars, decVars>>

NextPar ==
  \/ \E t \in Threads : \E vals \in [1..Len(Params) -> Values] : Enter(t, vals)
  \/ \E t \in Threads : Evaluate(t)
  \/ \E t \in Threads : Proceed(t)

SpecPar == InitPar /\ [][NextPar]_vars

\* A call run alone: the metadata entries from the k-th up to (not including)
\* the upto-th are evaluated in turn on the environment inj; what the last of
\* them gave and the environment it left.
RECURSIVE Solo(_, _, _, _)
RECURSIVE SoloNext(_, _, _, _)
Solo(items, k, upto, inj) ==
  IF k >= upto \/ k > Len(items) THEN [res |-> "pass", exc |-> NoExc, inj |-> inj]
  ELSE SoloNext(MetaStep(items[k][1], Library[metadata[items[k][1]][items[k][2]]], inj),
                items, k, upto)
SoloNext(r, items, k, upto) ==
  IF r.res = "raise" THEN [res |-> "raise", exc |-> r.exc, inj |-> r.inj]
  ELSE Solo(items, k + 1, upto, r.inj)

\* How far a frame has come, as a number of metadata entries handled.
Handled(f) == IF f.pc = "done" /\ f.funcOut = Running THEN f.cursor + 1 ELSE f.cursor
\* The same call run alone up to the same point, and to its end.
AloneSoFar(f) ==
  Solo(ItemsOf(ParamKeys), 1, Handled(f), ZipDict(ParamKeys, f.args))
AloneOutcome(f) ==
  LET s == Solo(ItemsOf(ParamKeys), 1, Len(ItemsOf(ParamKeys)) + 1,
                ZipDict(ParamKeys, f.args))
  IN  IF s.res = "raise" THEN Raised(s.exc) ELSE f.funcOut

\* C19: however two calls of the same wrapped function are interleaved, each
\* call's environment is at every point the one it has when run alone, and
\* its outcome (the function's result, a Contract Violation or a Definition
\* Error) is the one it has when run alone.
InterleavedCallsRunAsAlone ==
  \A t \in Threads :
    frames[t].pc # "idle" =>
      /\ frames[t].injectables = AloneSoFar(frames[t]).inj
      /\ frames[t].pc = "check_params" => AloneSoFar(frames[t]).res = "pass"
      /\ frames[t].pc = "done" => frames[t].outcome = AloneOutcome(frames[t])

\* C19 witness: both calls have returned, and each bound the free variable m
\* to its own value.
BothBoundTheirOwn ==
  /\ \A t \in Threads : frames[t].pc = "done" /\ frames[t].outcome.kind = "return"
  /\ \A t \in Threads : "m" \in DOMAIN frames[t].injectables
  /\ frames[1].injectables["m"] # frames[2].injectables["m"]

\* ------------------------------------------------ the order of evaluation
\* Declaration order of the slots (the return value last), list order within
\* a slot.
SlotRank(slot) == IF slot = "return" THEN Len(Params) + 1 ELSE Pos(slot)
IsEarlier(s1, i1, s2, i2) ==
  SlotRank(s1) < SlotRank(s2) \/ (s1 = s2 /\ i1 < i2)
\* The predicates of the contract: the callable metadata entries of the
\* annotated slots that name their slot or the reserved identifier.
PredicateItems ==
  {item \in UNION {{<<s, i>> : i \in DOMAIN metadata[s]} : s \in Slots} :
     annotated[item[1]] /\ IsPredicate(item)}

\* C20: predicates are evaluated one at a time, parameters in declaration
\* order and within a slot in list order; a predicate is evaluated only when
\* every earlier predicate was evaluated and passed; a predicate that is false
\* or raises ends the call with an error and is the last one evaluated; a
\* call returns only when every predicate was evaluated and passed.
EvaluatedInOrderUntilFailure ==
  /\ \A j, k \in 1..Len(evaluated) :
       j < k => IsEarlier(evaluated[j].slot, evaluated[j].idx,
                          evaluated[k].slot, evaluated[k].idx)
  /\ \A k \in 1..Len(evaluated) :
       /\ <<evaluated[k].slot, evaluated[k].idx>> \in PredicateItems
       /\ k < Len(evaluated) => evaluated[k].res = "pass"
       /\ evaluated[k].res = "raise" => (pc = "done" /\ outcome.kind = "raise")
       /\ \A item \in PredicateItems :
            IsEarlier(item[1], item[2], evaluated[k].slot, evaluated[k].idx)
              => Passed(item)
  /\ (evaluate /\ pc = "done" /\ outcome.kind = "return")
       => \A item \in PredicateItems : Passed(item)

\* C20 witness: the predicate of a passed, then the predicate of b was false,
\* and the call ended with the Contract Violation naming b.
LaterFailureDetected ==
  /\ Len(evaluated) = 2
  /\ evaluated[1].slot = "a" /\ evaluated[1].res = "pass"
  /\ evaluated[2].slot = "b" /\ evaluated[2].st = "false"
  /\ outcome = Violation("b")

\* ------------------------------------------------- the environment of a call
\* The checks of a call are about to start: the environment was just built.
ChecksStarting == pc = "check_params" /\ cursor = 1 /\ evaluated = <<>>

\* C21 as stated: at the start of every checked call the environment maps each
\* declared parameter name to the argument the caller passed for it, passed
\* positionally or by keyword.
EnvironmentHoldsActualArguments ==
  ChecksStarting =>
    \A p \in Range(Params) : p \in DOMAIN injectables /\ injectables[p] = Actual(p)

\* ------------------------------------------------ a predicate that raises
\* The errors that blame the contract: the definition error proper and the
\* error of an unsupported comparison, handed on as it is.
DefinitionErrors == {"ContractLogicError", "TypeError"}

\* C23 as stated: when invoking a predicate raised, the call ended at that
\* predicate with a definition error, not with a Contract Violation and not by
\* returning; after a parameter predicate raised, the wrapped function has
\* not been invoked.
PredicateErrorIsDefinitionError ==
  \A k \in 1..Len(evaluated) : evaluated[k].st = "raise" =>
    /\ k = Len(evaluated)
    /\ pc = "done"
    /\ outcome.kind = "raise"
    /\ outcome.exc.cls \in DefinitionErrors
    /\ outcome.exc.cls # "ContractViolationError"
    /\ evaluated[k].slot # "return" => invoked = 0

CrossStatements ==
  << EqualsNode(Path(RootM, 0), Path(RootN, 0)),   \* m[0] == n[0]
     EqualsNode(Path(RootM, 1), Path(RootN, 1)),   \* m[1] == n[1]
     EqualsNode(Path(RootN, 0), Path(RootM, 0)),   \* n[0] == m[0]
     EqualsNode(Path(RootN, 1), Path(RootM, 1)),   \* n[1] == m[1]
     Equals(Path(RootM, Whole), ListV(<<1, 2>>)),  \* m == [1, 2]
     Equals(Path(RootM, Whole), ListV(<<3, 2>>)),  \* m == [3, 2]
     Equals(Path(RootN, Whole), ListV(<<1, 2>>)),  \* n == [1, 2]
     Equals(Path(RootN, Whole), ListV(<<1, 3>>)) >> \* n == [1, 3]

\* resolve([m, n], ...) and resolve([n, m], ...)
Orders == {<<RootM, RootN>>, <<RootN, RootM>>}

InitRes == InitDel

\* One statement of the program is executed.
CrossStatement(s) ==
  /\ dpc = "build"
  /\ program # <<>> => s > program[Len(program)]
  /\ LET st == Exec(Store(heap, used, FALSE), CrossStatements[s])
     IN  /\ Fits(st)
         /\ heap' = st.heap
         /\ used' = st.used
  /\ program' = Append(program, s)
  /\ UNCHANGED <<dpc, raiseErrors, variables, iterations, checkResults, before, verdicts>>
  /\ UNCHANGED <<contractVars, callVars, symVars, decVars, parVars>>

\* resolve(vs, raise_errors) is called on the nodes as the program left them.
Resolve(vs) == dpc = "build" /\ ResolveStart(vs)

NextRes ==
  \/ \E s \in 1..Len(CrossStatements) : CrossStatement(s)
  \/ \E vs \in Lists \cup Orders : Resolve(vs)
  \/ ResolvePass
  \/ ResolveCap

SpecRes == InitRes /\ [][NextRes]_vars

\* The statements the program has executed.
Executed == {CrossStatements[s] : s \in Range(program)}
\* The concrete values asserted of a root, and the indices at which elements
\* of a root were asserted equal to the other root's elements.
AssertedOf(root) ==
  {stmt.val : stmt \in {e \in Executed : ~e.byPath /\ e.lhs = Path(root, Whole)}}
CrossedFrom(root) ==
  {stmt.lhs.index : stmt \in {e \in Executed : e.byPath /\ e.lhs.root = root}}
CrossedAt == CrossedFrom(RootM) \cup CrossedFrom(RootN)
ValueOf(root) == CHOOSE val \in AssertedOf(root) : TRUE
ElementOf(root, i) == IntV(ValueOf(root).v[i + 1])

\* The case of C24: elements asserted equal in both directions, each root
\* asserted equal to one concrete value, and both roots being resolved.
MutuallyReferring ==
  /\ CrossedFrom(RootM) # {}
  /\ CrossedFrom(RootN) # {}
  /\ Cardinality(AssertedOf(RootM)) = 1
  /\ Cardinality(AssertedOf(RootN)) = 1
  /\ variables \in Orders
\* The elements referred to are equal.
ElementsMatch == \A i \in CrossedAt : ElementOf(RootM, i) = ElementOf(RootN, i)
\* The exception is the ambiguity of a chained node root[i] whose elements
\* differ, and lists both elements.
AmbiguityOfMismatch(exc) ==
  /\ exc.cls = "ContractViolationError"
  /\ exc.node \in DOMAIN heap
  /\ heap[exc.node].parent \in {RootM, RootN}
  /\ heap[exc.node].op.attribute = "__getitem__"
  /\ heap[exc.node].op.arg \in CrossedAt
  /\ LET i == heap[exc.node].op.arg
     IN  /\ ElementOf(RootM, i) # ElementOf(RootN, i)
         /\ Range(exc.vals) = {ElementOf(RootM, i), ElementOf(RootN, i)}

\* C24: for roots m and n whose elements are asserted equal to each other's in
\* both directions and that are each asserted equal to one concrete value,
\* resolve on [m, n] or [n, m] always has a next pass to run while it is
\* running, is over after at most two passes, never ends with LogicError
\* ('could not resolve'), returns True when the elements referred to are
\* equal, and otherwise reports the violation: with raise_errors the ambiguity
\* of the mismatching element listing both values, without it False.
MutualReferenceSettles ==
  MutuallyReferring =>
    /\ dpc = "resolving" =>
         /\ iterations < 2
         /\ Fits(CheckAll(Store(heap, used, FALSE), variables, raiseErrors, 1, <<>>))
    /\ dpc = "checked" =>
         /\ iterations <= 2
         /\ LastVerdict.exc.cls # "LogicError"
         /\ ElementsMatch => LastVerdict.res = "True"
         /\ ~ElementsMatch =>
              IF raiseErrors
              THEN LastVerdict.res = "raise" /\ AmbiguityOfMismatch(LastVerdict.exc)
              ELSE LastVerdict.res = "False"

\* C24 witness: m[0] == n[0]; n[1] == m[1]; m == [1, 2]; n == [1, 3] resolved
\* as [m, n] with raise_errors ended with the ambiguity of n[1], listing 2 and 3.
MismatchReportedOnChild ==
  /\ program = <<1, 4, 5, 8>>
  /\ variables = <<RootM, RootN>>
  /\ raiseErrors
  /\ dpc = "checked"
  /\ LastVerdict.res = "raise"
  /\ LastVerdict.exc.cls = "ContractViolationError"
  /\ heap[LastVerdict.exc.node].parent = RootN
  /\ heap[LastVerdict.exc.node].op = GetItem(1)
  /\ LastVerdict.exc.vals = <<IntV(2), IntV(3)>>

\* ------------------------------------------ a node's verdict and its children's
\* What the children of a node return when they are checked one after the
\* other without raise_errors, from the i-th child on; a child that raises
\* ends the list.
RECURSIVE ChildReturns(_, _, _)
RECURSIVE ReturnsAfter(_, _, _)
ChildReturns(st, kids, i) ==
  IF i > Len(kids) THEN <<>>
  ELSE ReturnsAfter(DBC_check(st, kids[i], FALSE), kids, i)
ReturnsAfter(r, kids, i) ==
  IF r.res = "raise" THEN <<"raise">>
  ELSE <<r.res>> \o ChildReturns(Store(r.heap, r.used, r.full), kids, i + 1)

\* The nodes constructed in a heap: the roots and every chained node.
UsedIn(h) == Len(Roots) + Cardinality({id \in DOMAIN h : h[id].parent # 0})
\* The verdicts of the children of the node whose check has just finished.
ReturnsOfChildren ==
  ChildReturns(Store(before, UsedIn(before), FALSE), before[CheckedNode].children, 1)
\* The checked node is no terminal, has children, and its own values are
\* settled and agree.
ParentInAgreement ==
  /\ ~before[CheckedNode].terminal
  /\ before[CheckedNode].children # <<>>
  /\ Agrees(before, CheckedNode)

\* C25: DBC_check(raise_errors=False) on a non-terminal node with children
\* whose own values are settled and agree returns VALID iff every child
\* returns VALID, UNRESOLVED if some child returns UNRESOLVED, and INVALID
\* otherwise; on a node asserted equal to a node that has no value yet it
\* returns UNRESOLVED and leaves every node as it was.
ChildrenDecideVerdict ==
  (JustChecked /\ ~raiseErrors) =>
    /\ (ParentInAgreement /\ LastVerdict.res # "raise") =>
         /\ Len(ReturnsOfChildren) = Len(before[CheckedNode].children)
         /\ LastVerdict.res = "VALID" <=>
              \A j \in 1..Len(ReturnsOfChildren) : ReturnsOfChildren[j] = "VALID"
         /\ (\E j \in 1..Len(ReturnsOfChildren) : ReturnsOfChildren[j] = "UNRESOLVED")
              => LastVerdict.res = "UNRESOLVED"
         /\ ( /\ \E j \in 1..Len(ReturnsOfChildren) : ReturnsOfChildren[j] = "INVALID"
              /\ \A j \in 1..Len(ReturnsOfChildren) : ReturnsOfChildren[j] # "UNRESOLVED" )
              => LastVerdict.res = "INVALID"
    /\ Unsettled(before, CheckedNode) =>
         /\ LastVerdict.res = "UNRESOLVED"
         /\ heap = before

\* C25 witness: a node in agreement was checked without raise_errors, one of
\* its children returned INVALID and a later one UNRESOLVED, and the node
\* returned UNRESOLVED.
UnresolvedBesideInvalid ==
  /\ JustChecked /\ ~raiseErrors
  /\ ParentInAgreement
  /\ \E i, j \in 1..Len(ReturnsOfChildren) :
       /\ i < j
       /\ ReturnsOfChildren[i] = "INVALID"
       /\ ReturnsOfChildren[j] = "UNRESOLVED"
  /\ LastVerdict.res = "UNRESOLVED"

====
